---- MODULE Spec2Model ----
(***************************************************************************)
(* ssh-mate: the pty session controller of the `connect` command           *)
(* (src/unnamed/part_000, "index copy.js") and the file-backed credential  *)
(* store (src/lib/store.js).                                               *)
(*                                                                         *)
(* Two specifications share this module:                                   *)
(*   SessionSpec  one run of `connect <alias>`: spawn, raw mode, the       *)
(*                awaited keyring lookup, the data / exit / stdin          *)
(*                callbacks and the ways the host process ends;            *)
(*   StoreSpec    any sequence of credential-store operations on the       *)
(*                secrets document and the keys directory.                 *)
(* Node runs one callback at a time: every action below is one callback    *)
(* (or the synchronous stretch of the command between two awaits) run to   *)
(* completion.                                                             *)
(***************************************************************************)
EXTENDS Integers, Sequences, FiniteSets, TLC

VARIABLES
    \* ---- session (src/unnamed/part_000) ----
    pc,           \* position of the connect action
    entry,        \* hosts[alias] as loaded, or NoEntry
    keyring,      \* what the OS keyring holds for alias@host, or Null
    isTTY,        \* process.stdin.setRawMode exists
    spawned,      \* "no" | "ok" | "failed"
    rawMode,      \* the terminal's mode flag
    modeLog,      \* "enter" / "restore" / "exit" in the order they happened
    password,     \* the `password` variable of the action
    handlersOn,   \* detector onData and onExit handlers are registered
    promptedOnce, \* the `promptedOnce` variable of the action
    sub,          \* "none" | "running" | "exited"
    subExitCode,  \* exit status of the subprocess, or NoCode
    host,         \* "running" | "exited" | "killed"
    hostExitCode, \* status passed to process.exit, or NoCode
    exitCause,    \* why the host ended
    chunks,       \* one record per chunk the subprocess emitted
    ptyIn,        \* everything written to the pty, in order
    notices,      \* console notices about a missing password
    typed,        \* the local input events so far, in arrival order
    \* ---- credential store (src/lib/store.js) ----
    credExists,   \* credentials.json exists
    creds,        \* credentials.json: alias -> record, bare string or Absent
    keysDir,      \* ~/.sshm/keys exists
    keyFiles,     \* ~/.sshm/keys/<alias>_key: file record or NoFile
    lastOp,       \* the store operation that ran last, with its outcome
    prevOp,       \* name, alias and argument of the operation before it
    \* ---- command line (src/unnamed/part_001, src/lib/store.js) ----
    servers,      \* servers.json: the ordered list of server entries
    userKeyFile,  \* ~/.ssh/id_rsa, a key file outside ~/.sshm/keys
    results,      \* what the last regenerateAllKeyFiles returned
    run           \* the last command run and how it ended

sessionVars == <<pc, entry, keyring, isTTY, spawned, rawMode, modeLog, password,
                 handlersOn, promptedOnce, sub, subExitCode, host, hostExitCode,
                 exitCause, chunks, ptyIn, notices, typed>>
storeVars == <<credExists, creds, keysDir, keyFiles, lastOp, prevOp>>
cliVars == <<servers, userKeyFile, results, run>>
vars == <<sessionVars, storeVars, cliVars>>

\* ------------------------------------------------------------------------
\* Bounds
\* ------------------------------------------------------------------------
MaxChunks == 2     \* chunks the subprocess emits in one session
MaxTyped == 1      \* local input events in one session
MaxServers == 2    \* entries `add` puts into servers.json

\* ------------------------------------------------------------------------
\* Values
\* ------------------------------------------------------------------------
Null == "null"
NoEntry == [found |-> FALSE, auth |-> "none", keypath |-> FALSE]
NoCode == -1
StoredSecret == "s3cr3t"
ExitCodes == {0, 1, 255}

\* hosts[alias] of hosts.json: absent, password auth, key auth with or
\* without a keypath.
Entries ==
    {NoEntry,
     [found |-> TRUE, auth |-> "password", keypath |-> FALSE],
     [found |-> TRUE, auth |-> "key", keypath |-> TRUE],
     [found |-> TRUE, auth |-> "key", keypath |-> FALSE]}

\* Output chunks of the subprocess, as sequences of tokens, so that the
\* patterns of the detector are matched rather than looked up.
HostKeyChunk == <<"Are you sure you want to continue connecting", " (yes/no)?">>
PasswordChunk == <<"root@10.0.0.5's ", "password:">>
PlainPasswordChunk == <<"password:">>
UpperPasswordChunk == <<"PASSWORD:">>
PassphraseChunk == <<"Enter", " ", "passphrase for key", " '/x/y'", ":">>
BothChunk == HostKeyChunk \o <<" ", "password:">>
BannerChunk == <<"Welcome to Ubuntu 22.04">>
NoColonChunk == <<"Enter", " ", "passphrase for key", " '/x/y'">>
Chunks == {HostKeyChunk, PasswordChunk, PlainPasswordChunk, UpperPasswordChunk,
           PassphraseChunk, BothChunk, BannerChunk, NoColonChunk}

\* The /i flag: letters compare as their lower-case forms.
ToLower(t) ==
    CASE t = "Are you sure you want to continue connecting"
            -> "are you sure you want to continue connecting"
      [] t = "PASSWORD:" -> "password:"
      [] t = "Enter" -> "enter"
      [] t = "Welcome to Ubuntu 22.04" -> "welcome to ubuntu 22.04"
      [] OTHER -> t

\* A chunk as a pattern with the /i flag sees it.
Fold(s) == [k \in DOMAIN s |-> ToLower(s[k])]

\* The literal `pat` occurs in s at position i.
OccursAt(s, pat, i) ==
    /\ i + Len(pat) - 1 <= Len(s)
    /\ \A k \in 1..Len(pat) : s[i + k - 1] = pat[k]

\* `lit .*:` : the literal, then anything, then a colon.
OccursThenColon(s, pat) ==
    \E i \in 1..Len(s) :
        /\ OccursAt(s, pat, i)
        /\ \E j \in (i + Len(pat))..Len(s) : s[j] = ":"

\* Variant: the host-key pattern without the /i flag.
MatchesHostKeyCased(s) ==
    \E i \in 1..Len(s) :
        OccursAt(s, <<"are you sure you want to continue connecting",
                      " (yes/no)?">>, i)

\* /are you sure you want to continue connecting \(yes\/no\)\?/i
MatchesHostKey(s) ==
    \E i \in 1..Len(s) :
        OccursAt(Fold(s), <<"are you sure you want to continue connecting",
                            " (yes/no)?">>, i)

\* /password:|passphrase for key .*:|enter passphrase for key .*:/i
MatchesSecret(s) ==
    \/ \E i \in 1..Len(s) : OccursAt(Fold(s), <<"password:">>, i)
    \/ OccursThenColon(Fold(s), <<"passphrase for key">>)
    \/ OccursThenColon(Fold(s), <<"enter", " ", "passphrase for key">>)

\* The class the detector handler acts on: the host-key test comes first and
\* returns.
Classify(s) ==
    IF MatchesHostKey(s) THEN "HostKeyConfirm"
    ELSE IF MatchesSecret(s) THEN "SecretPrompt"
    ELSE "Passthrough"

\* `if (password)`: null and the empty string are falsy.
Truthy(p) == p # Null /\ p # ""

\* Local input events, as the bytes read from the terminal: an ASCII letter,
\* a two-byte UTF-8 character, and the first byte of one whose second byte
\* comes with the next read.
StdinInputs == {<<"61">>, <<"C3", "A9">>, <<"C3">>}

\* Buffer.prototype.toString(): UTF-8 decoding; a byte that does not belong to
\* a complete sequence becomes U+FFFD.
RECURSIVE Utf8Decode(_)
Utf8Decode(b) ==
    IF b = <<>> THEN <<>>
    ELSE IF b[1] = "61" THEN <<"a">> \o Utf8Decode(Tail(b))
    ELSE IF b[1] = "C3" /\ Len(b) >= 2 /\ b[2] = "A9"
         THEN <<"U+00E9">> \o Utf8Decode(Tail(Tail(b)))
    ELSE <<"U+FFFD">> \o Utf8Decode(Tail(b))

\* The bytes the pty receives for a string written to it.
RECURSIVE Utf8Encode(_)
Utf8Encode(str) ==
    IF str = <<>> THEN <<>>
    ELSE (CASE str[1] = "a" -> <<"61">>
            [] str[1] = "U+00E9" -> <<"C3", "A9">>
            [] OTHER -> <<"EF", "BF", "BD">>) \o Utf8Encode(Tail(str))

\* p.write(d.toString()) of the input handler.
WriteDecoded(d) == Utf8Encode(Utf8Decode(d))

\* One write to the pty: who wrote it and what.
PtyWrite(from, data) == [from |-> from, data |-> data]

\* ------------------------------------------------------------------------
\* Credential store: src/lib/store.js, lines 1-182
\* ------------------------------------------------------------------------
\* Strings of the store are sequences of tokens, so that `includes` and the
\* appended newline are computed rather than assumed; "" is <<>>.

Aliases == {"db1", "web"}
Secrets == {<<>>, <<"s3cr3t">>}

KeyValid == <<"-----", "BEGIN", " OPENSSH ", "PRIVATE KEY", "-----", "b3Blbn">>
KeyNoBegin == <<"PRIVATE KEY", "b3Blbn">>
KeyNoPrivate == <<"-----", "BEGIN", " PUBLIC KEY", "-----">>
KeyEmpty == <<>>
KeyContents == {KeyValid, KeyNoBegin, KeyNoPrivate, KeyEmpty}

\* Permission bits of a key file.
Mode600 == {"ur", "uw"}
Mode644 == {"ur", "uw", "gr", "or"}

\* An entry of credentials.json: missing, a bare string (old format) or a
\* tagged record.
Absent == [type |-> "absent", value |-> <<>>]
Bare(v) == [type |-> "bare", value |-> v]
Tagged(t, v) == [type |-> t, value |-> v]

NoFile == [exists |-> FALSE, content |-> <<>>, mode |-> {}]
File(c, m) == [exists |-> TRUE, content |-> c, mode |-> m]
\* A file somebody else put at the key path, readable by group and others.
ForeignFile == File(<<"restored from backup">>, Mode644)

\* Return values: a JS value or null, and the outcome of an operation.
None == [some |-> FALSE, v |-> <<>>]
Some(v) == [some |-> TRUE, v |-> v]
Ok(v) == [kind |-> "ok", value |-> v]
Fail(kind) == [kind |-> kind, value |-> <<>>]

\* `~/.sshm/keys/${name}_key`
KeyPath(name) == <<"~", "/.sshm/keys/", name, "_key">>

\* String.prototype.includes
Includes(str, marker) == \E i \in DOMAIN str : str[i] = marker

\* keyContent.includes('BEGIN') && keyContent.includes('PRIVATE KEY')
HasEnvelope(str) == Includes(str, "BEGIN") /\ Includes(str, "PRIVATE KEY")

\* Variant: the document is rewritten on every load.
NeedsUpdateAlways(doc) == TRUE

\* migrateCredentials: the loop over Object.entries(creds).
NeedsUpdate(doc) == \E n \in DOMAIN doc : doc[n].type = "bare"

\* Variant: a bare string is taken for key content.
MigratedAsKey(doc) ==
    [n \in DOMAIN doc |->
        IF doc[n].type = "bare" THEN Tagged("key", doc[n].value) ELSE doc[n]]

\* migrateCredentials, line 25: a string becomes a password record.
Migrated(doc) ==
    [n \in DOMAIN doc |->
        IF doc[n].type = "bare" THEN Tagged("password", doc[n].value) ELSE doc[n]]

\* migrateCredentials: what is on disk afterwards and how many writes it took.
MigrateCredentials(doc) ==
    IF NeedsUpdate(doc)
    THEN [doc |-> Migrated(doc), writes |-> 1]
    ELSE [doc |-> doc, writes |-> 0]

\* ensureConfig on the secrets document: create it empty if missing, migrate.
EnsureConfig(exists, doc) ==
    LET created == IF exists THEN doc ELSE [n \in DOMAIN doc |-> Absent]
        m == MigrateCredentials(created)
    IN [doc |-> m.doc, writes |-> (IF exists THEN 0 ELSE 1) + m.writes]

\* Variant: the record is tagged as saveKeyContent tags it.
PasswordRecordAsKey(pw) == Tagged("key", pw)

\* The record savePassword stores.
PasswordRecord(pw) == Tagged("password", pw)

\* The record saveKeyContent stores.
KeyRecord(keyContent) == Tagged("key", keyContent)

\* Variant: the lookup takes whatever record the alias has, of either type.
LookupAnyRecord(doc, name) ==
    IF doc[name] # Absent THEN Some(doc[name].value) ELSE None

\* getPassword after its ensureConfig: cred && cred.type === 'password'.
LookupPassword(doc, name) ==
    IF doc[name] # Absent /\ doc[name].type = "password"
    THEN Some(doc[name].value) ELSE None

\* getKeyContent after its ensureConfig: cred && cred.type === 'key'.
LookupKeyContent(doc, name) ==
    IF doc[name] # Absent /\ doc[name].type = "key"
    THEN Some(doc[name].value) ELSE None

\* Variant: only a password record counts as something to delete.
EntryIsPassword(e) == e.type = "password"

\* `if (creds[name])` of deletePassword: a missing entry and "" are falsy.
EntryTruthy(e) == e # Absent /\ e # Bare(<<>>)

\* `!keyContent` of regenerateKeyFile: null and "" are falsy.
KeyContentMissing(k) == ~k.some \/ k.v = <<>>

\* Variant: the content found is written without looking at its markers.
PreWriteCheckLookupOnly(k) ==
    IF KeyContentMissing(k) THEN "NotFound" ELSE "write"

\* regenerateKeyFile, lines 90-98: the lookup and the validation before the
\* write. "write" means both passed.
PreWriteCheck(k) ==
    IF KeyContentMissing(k) THEN "NotFound"
    ELSE IF ~HasEnvelope(k.v) THEN "InvalidContent"
    ELSE "write"

\* Variant: the key is written without the trailing newline.
WriteKeyFileNoNewline(old, keyContent) ==
    File(keyContent, IF old.exists THEN old.mode ELSE Mode600)

\* fs.writeFileSync(keyFile, keyContent + '\n', { mode: 0o600 }): the mode
\* option applies only to a file the call creates.
WriteKeyFile(old, keyContent) ==
    File(keyContent \o <<"\n">>, IF old.exists THEN old.mode ELSE Mode600)

\* fs.chmodSync(keyFile, 0o600), when it succeeds.
Chmod600(f) == File(f.content, Mode600)

\* regenerateKeyFile, lines 109-127: the outer try around chmod and the
\* re-read validation, and its catch.
PostWriteResult(name, chmodOk, readOk, testKey) ==
    LET innerThrows == ~readOk \/ ~HasEnvelope(testKey)
        tryThrows == ~chmodOk \/ innerThrows
    IN IF tryThrows THEN Ok(KeyPath(name)) ELSE Ok(KeyPath(name))

\* The record of one store operation: its call, its result, the number of
\* writes it made to credentials.json, and how the chmod and the re-read of
\* a regeneration went ("skipped" when not reached).
Op(name, alias, arg, result, writes, chmod, reread) ==
    [name |-> name, alias |-> alias, arg |-> arg, result |-> result,
     credWrites |-> writes, chmod |-> chmod, reread |-> reread]

NoOp == Op("none", "none", <<>>, Ok(<<>>), 0, "skipped", "skipped")

\* What is remembered of the operation before the last one.
Call(op) == [name |-> op.name, alias |-> op.alias, arg |-> op.arg]

\* What is remembered of a command: the server it was for and how that
\* server authenticates, whether it spawned, why the key file was distrusted
\* ("missing", "invalid"), how the regeneration went, the argument vector
\* of the spawn, the diagnostic printed and the exit status of the host.
Run(cmd, name, auth, outcome, trigger, regen, argv, diag, exitCode) ==
    [cmd |-> cmd, name |-> name, auth |-> auth, outcome |-> outcome,
     trigger |-> trigger, regen |-> regen, argv |-> argv, diag |-> diag,
     exitCode |-> exitCode]

\* No command has run yet.
NoRun == Run("none", "none", "none", "none", "none", "none", <<>>, "none", NoCode)

StoreInit ==
    /\ credExists \in BOOLEAN
    /\ creds \in [Aliases -> {Absent} \cup {Bare(v) : v \in Secrets}]
    /\ credExists = FALSE => creds = [n \in Aliases |-> Absent]
    /\ keysDir \in BOOLEAN
    /\ keyFiles \in [Aliases -> {NoFile, ForeignFile}]
    /\ keysDir = FALSE => keyFiles = [n \in Aliases |-> NoFile]
    /\ lastOp = NoOp
    /\ prevOp = Call(NoOp)
    /\ servers = <<>> /\ userKeyFile = NoFile /\ results = <<>> /\ run = NoRun
    /\ pc = "idle" /\ entry = NoEntry /\ keyring = Null /\ isTTY = FALSE
    /\ spawned = "no" /\ rawMode = FALSE /\ modeLog = <<>> /\ password = Null
    /\ handlersOn = FALSE /\ promptedOnce = FALSE /\ sub = "none"
    /\ subExitCode = NoCode /\ host = "running" /\ hostExitCode = NoCode
    /\ exitCause = "none" /\ chunks = <<>> /\ ptyIn = <<>> /\ notices = <<>>
    /\ typed = <<>>

\* A bare config load (getServers / saveServers call ensureConfig first).
LoadConfig ==
    LET e == EnsureConfig(credExists, creds) IN
    /\ credExists' = TRUE
    /\ creds' = e.doc
    /\ lastOp' = Op("ensureConfig", "none", <<>>, Ok(<<>>), e.writes, "skipped", "skipped")
    /\ UNCHANGED <<keysDir, keyFiles>>
    /\ prevOp' = Call(lastOp)
    /\ UNCHANGED <<sessionVars, cliVars>>

SavePassword(name, pw) ==
    LET e == EnsureConfig(credExists, creds) IN
    /\ credExists' = TRUE
    /\ creds' = [e.doc EXCEPT ![name] = PasswordRecord(pw)]
    /\ lastOp' = Op("savePassword", name, pw, Ok(<<>>), e.writes + 1,
                    "skipped", "skipped")
    /\ UNCHANGED <<keysDir, keyFiles>>
    /\ prevOp' = Call(lastOp)
    /\ UNCHANGED <<sessionVars, cliVars>>

SaveKeyContent(name, keyContent) ==
    LET e == EnsureConfig(credExists, creds) IN
    /\ credExists' = TRUE
    /\ creds' = [e.doc EXCEPT ![name] = KeyRecord(keyContent)]
    /\ lastOp' = Op("saveKeyContent", name, keyContent, Ok(<<>>), e.writes + 1,
                    "skipped", "skipped")
    /\ UNCHANGED <<keysDir, keyFiles>>
    /\ prevOp' = Call(lastOp)
    /\ UNCHANGED <<sessionVars, cliVars>>

GetPassword(name) ==
    LET e == EnsureConfig(credExists, creds)
        r == LookupPassword(e.doc, name)
    IN
    /\ credExists' = TRUE
    /\ creds' = e.doc
    /\ lastOp' = Op("getPassword", name, <<>>,
                    IF r.some THEN Ok(r.v) ELSE Fail("null"), e.writes,
                    "skipped", "skipped")
    /\ UNCHANGED <<keysDir, keyFiles>>
    /\ prevOp' = Call(lastOp)
    /\ UNCHANGED <<sessionVars, cliVars>>

GetKeyContent(name) ==
    LET e == EnsureConfig(credExists, creds)
        r == LookupKeyContent(e.doc, name)
    IN
    /\ credExists' = TRUE
    /\ creds' = e.doc
    /\ lastOp' = Op("getKeyContent", name, <<>>,
                    IF r.some THEN Ok(r.v) ELSE Fail("null"), e.writes,
                    "skipped", "skipped")
    /\ UNCHANGED <<keysDir, keyFiles>>
    /\ prevOp' = Call(lastOp)
    /\ UNCHANGED <<sessionVars, cliVars>>

DeletePassword(name) ==
    LET e == EnsureConfig(credExists, creds)
        hit == EntryTruthy(e.doc[name])
    IN
    /\ credExists' = TRUE
    /\ creds' = IF hit THEN [e.doc EXCEPT ![name] = Absent] ELSE e.doc
    /\ lastOp' = Op("deletePassword", name, <<>>,
                    IF hit THEN Ok(<<"true">>) ELSE Ok(<<"false">>),
                    e.writes + (IF hit THEN 1 ELSE 0), "skipped", "skipped")
    /\ UNCHANGED <<keysDir, keyFiles>>
    /\ prevOp' = Call(lastOp)
    /\ UNCHANGED <<sessionVars, cliVars>>

\* regenerateKeyFile(name). chmodOk and readOk are the outcomes of
\* fs.chmodSync and of the fs.readFileSync of the validation.
RegenerateKeyFile(name, chmodOk, readOk) ==
    LET e == EnsureConfig(credExists, creds)
        k == LookupKeyContent(e.doc, name)
        check == PreWriteCheck(k)
        written == WriteKeyFile(keyFiles[name], k.v)
        final == IF chmodOk THEN Chmod600(written) ELSE written
    IN
    /\ credExists' = TRUE
    /\ creds' = e.doc
    /\ prevOp' = Call(lastOp)
    /\ UNCHANGED <<sessionVars, cliVars>>
    /\ IF check = "write"
       THEN /\ keysDir' = TRUE
            /\ keyFiles' = [keyFiles EXCEPT ![name] = final]
            /\ lastOp' = Op("regenerateKeyFile", name, <<>>,
                            PostWriteResult(name, chmodOk, readOk, final.content),
                            e.writes,
                            IF chmodOk THEN "ok" ELSE "failed",
                            IF ~chmodOk THEN "skipped"
                            ELSE IF readOk THEN "ok" ELSE "failed")
       ELSE /\ UNCHANGED <<keysDir, keyFiles>>
            /\ lastOp' = Op("regenerateKeyFile", name, <<>>, Fail(check),
                            e.writes, "skipped", "skipped")

StoreNext ==
    \/ LoadConfig
    \/ \E n \in Aliases, v \in Secrets : SavePassword(n, v)
    \/ \E n \in Aliases, k \in KeyContents : SaveKeyContent(n, k)
    \/ \E n \in Aliases : GetPassword(n)
    \/ \E n \in Aliases : GetKeyContent(n)
    \/ \E n \in Aliases : DeletePassword(n)
    \/ \E n \in Aliases, chmodOk \in BOOLEAN, readOk \in BOOLEAN :
            RegenerateKeyFile(n, chmodOk, readOk)

\* ------------------------------------------------------------------------
\* The server list and regenerateAllKeyFiles: src/lib/store.js, lines 36-50
\* and 130-171
\* ------------------------------------------------------------------------
ServerNames == Aliases \cup {"cache"}

\* An entry of servers.json. keyPath is "none" when the entry has no keyPath
\* (password authentication), "keys" for `~/.sshm/keys/${name}_key` and
\* "user" for a path outside the keys directory (~/.ssh/id_rsa).
Server(name, keyPath) ==
    [name |-> name, keyPath |-> keyPath, user |-> "root", host |-> "10.0.0.5",
     port |-> "22"]

\* servers.filter(s => s.keyPath)
KeyServers(list) == SelectSeq(list, LAMBDA sv : sv.keyPath # "none")

\* One element of the array regenerateAllKeyFiles returns.
Result(name, status, reason) ==
    [name |-> name, status |-> status, reason |-> reason]

\* The body of the loop for one server: the lookup, the write, the chmod and
\* the catch around them.
RegenOne(name, file, k, chmodOk) ==
    IF KeyContentMissing(k)
    THEN [file |-> file,
          result |-> Result(name, "failed", "No key content found")]
    ELSE LET written == WriteKeyFile(file, k.v) IN
         IF chmodOk
         THEN [file |-> Chmod600(written), result |-> Result(name, "success", "")]
         ELSE [file |-> written, result |-> Result(name, "failed", "EPERM")]

\* for (const server of keyServers) { ... }: the files on disk and the
\* results array after the loop. chmod[name] is the outcome of fs.chmodSync.
RECURSIVE RegenLoop(_, _, _, _)
RegenLoop(list, files, doc, chmod) ==
    IF list = <<>> THEN [files |-> files, results |-> <<>>]
    ELSE LET sv == Head(list)
             one == RegenOne(sv.name, files[sv.name],
                             LookupKeyContent(doc, sv.name), chmod[sv.name])
             rest == RegenLoop(Tail(list),
                               [files EXCEPT ![sv.name] = one.file], doc, chmod)
         IN [files |-> rest.files, results |-> <<one.result>> \o rest.results]

\* Lists of the three names, in one order or the other, each entry with or
\* without a keyPath.
ServerLists ==
    {[i \in 1..3 |-> Server(order[i], kinds[i])] :
        order \in {<<"db1", "web", "cache">>, <<"cache", "web", "db1">>},
        kinds \in [1..3 -> {"none", "keys"}]}

RegenAllInit ==
    /\ servers \in ServerLists
    /\ credExists = TRUE
    /\ creds \in [ServerNames -> {Absent, KeyRecord(KeyValid),
                                  KeyRecord(KeyNoBegin), KeyRecord(KeyEmpty)}]
    /\ keysDir \in BOOLEAN
    /\ keyFiles \in [ServerNames -> {NoFile, ForeignFile}]
    /\ keysDir = FALSE => keyFiles = [n \in ServerNames |-> NoFile]
    /\ lastOp = NoOp /\ prevOp = Call(NoOp)
    /\ userKeyFile = NoFile /\ results = <<>> /\ run = NoRun
    /\ pc = "idle" /\ entry = NoEntry /\ keyring = Null /\ isTTY = FALSE
    /\ spawned = "no" /\ rawMode = FALSE /\ modeLog = <<>> /\ password = Null
    /\ handlersOn = FALSE /\ promptedOnce = FALSE /\ sub = "none"
    /\ subExitCode = NoCode /\ host = "running" /\ hostExitCode = NoCode
    /\ exitCause = "none" /\ chunks = <<>> /\ ptyIn = <<>> /\ notices = <<>>
    /\ typed = <<>>

\* regenerateAllKeyFiles(): with no key server it returns [] before touching
\* the keys directory. A behaviour holds at most two regenerations.
RegenerateAllKeyFiles(chmod) ==
    LET e == EnsureConfig(credExists, creds)
        keyServers == KeyServers(servers)
        loop == RegenLoop(keyServers, keyFiles, e.doc, chmod)
    IN
    /\ prevOp.name = "none"
    /\ credExists' = TRUE
    /\ creds' = e.doc
    /\ lastOp' = Op("regenerateAllKeyFiles", "none", <<>>, Ok(<<>>), e.writes,
                    "skipped", "skipped")
    /\ prevOp' = Call(lastOp)
    /\ IF keyServers = <<>>
       THEN /\ results' = <<>>
            /\ UNCHANGED <<keysDir, keyFiles>>
       ELSE /\ results' = loop.results
            /\ keysDir' = TRUE
            /\ keyFiles' = loop.files
    /\ UNCHANGED <<servers, userKeyFile, run>>
    /\ UNCHANGED sessionVars

\* The `regen` command: regenerateKeyFile for one name.
RegenOneCommand(name, chmodOk, readOk) ==
    /\ prevOp.name = "none"
    /\ RegenerateKeyFile(name, chmodOk, readOk)

RegenAllNext ==
    \/ \E chmod \in [ServerNames -> BOOLEAN] : RegenerateAllKeyFiles(chmod)
    \/ \E n \in ServerNames, chmodOk \in BOOLEAN, readOk \in BOOLEAN :
            RegenOneCommand(n, chmodOk, readOk)

\* ------------------------------------------------------------------------
\* handleSSH: src/unnamed/part_001, lines 27-120
\* ------------------------------------------------------------------------
HomeDir == "/home/u"
UserKeyPath == <<"~", "/.ssh/id_rsa">>

\* path.replace(/^~(?=$|\/)/, os.homedir())
ExpandHome(path) ==
    IF path # <<>> /\ path[1] = "~" THEN <<HomeDir>> \o Tail(path) ELSE path

\* server.keyPath as a path.
ServerKeyPath(sv) == IF sv.keyPath = "keys" THEN KeyPath(sv.name) ELSE UserKeyPath

\* The exit status of a host that runs out of work without process.exit.
NaturalExitStatus == 0

\* The options both spawns pass to ssh.
SshOptions ==
    << <<"-o">>, <<"StrictHostKeyChecking=no">>,
       <<"-o">>, <<"UserKnownHostsFile=/dev/null">>,
       <<"-o">>, <<"LogLevel=ERROR">> >>

\* An entry without a port, or with an empty one.
NoPort == ""

\* Variant: the port is passed on as stored.
PortAsStored(sv) == sv.port

\* if (!server.port) server.port = '22'
PortOf(sv) == IF sv.port = NoPort THEN "22" ELSE sv.port

\* `${server.user}@${server.host}`
Target(sv) == <<sv.user, "@", sv.host>>

\* spawn('ssh', [...]) of the key branch.
KeyArgv(sv, keyPath) ==
    << <<"ssh">> >> \o SshOptions
        \o << <<"-p">>, <<PortOf(sv)>>, <<"-i">>, keyPath, Target(sv) >>

\* spawn('sshpass', [...]) of the password branch.
PasswordArgv(sv, pw) ==
    << <<"sshpass">>, <<"-p">>, pw, <<"ssh">> >> \o SshOptions
        \o << <<"-p">>, <<PortOf(sv)>>, Target(sv) >>

\* How a key session goes, lines 38-98. file is the file at server.keyPath,
\* check the outcome of regenerateKeyFile's lookup and validation, regenFile
\* the file a regeneration writes, readOk the outcome of the readFileSync of
\* the validation.
KeySession(sv, file, check, regenFile, readOk) ==
    LET plan(outcome, trigger, regen, keyPath, diag) ==
            [outcome |-> outcome, trigger |-> trigger, regen |-> regen,
             keyPath |-> keyPath, diag |-> diag]
        own == ExpandHome(ServerKeyPath(sv))
        fresh == ExpandHome(KeyPath(sv.name))
    IN IF ~file.exists
       THEN IF check # "write"
            THEN plan("aborted", "missing", "failed", own, check)
            ELSE IF ~readOk
            THEN plan("aborted", "missing", "ok", fresh, "cannot read key file")
            ELSE IF ~HasEnvelope(regenFile.content)
            THEN plan("spawned", "invalid", "ok", fresh, "none")
            ELSE plan("spawned", "missing", "ok", fresh, "none")
       ELSE IF ~readOk
            THEN plan("aborted", "none", "none", own, "cannot read key file")
            ELSE IF ~HasEnvelope(file.content)
            THEN IF check # "write"
                 THEN plan("aborted", "invalid", "failed", own, check)
                 ELSE plan("spawned", "invalid", "ok", fresh, "none")
            ELSE plan("spawned", "none", "none", own, "none")

\* Servers, secrets and key files as earlier commands can have left them.
SshInit ==
    /\ servers \in UNION {[1..len -> {[Server(n, k) EXCEPT !.port = p] :
                                       n \in Aliases,
                                       k \in {"none", "keys", "user"},
                                       p \in {NoPort, "2222"}}] :
                            len \in 0..2}
    /\ credExists = TRUE
    /\ creds \in [Aliases -> {Absent, PasswordRecord(<<>>),
                              PasswordRecord(<<"s3cr3t">>),
                              KeyRecord(KeyValid), KeyRecord(KeyNoBegin)}]
    /\ keysDir = TRUE
    /\ keyFiles \in [Aliases -> {NoFile, ForeignFile,
                                 File(KeyValid \o <<"\n">>, Mode600)}]
    /\ userKeyFile \in {NoFile, ForeignFile, File(KeyValid \o <<"\n">>, Mode600)}
    /\ lastOp = NoOp /\ prevOp = Call(NoOp)
    /\ results = <<>> /\ run = NoRun
    /\ pc = "idle" /\ entry = NoEntry /\ keyring = Null /\ isTTY = FALSE
    /\ spawned = "no" /\ rawMode = FALSE /\ modeLog = <<>> /\ password = Null
    /\ handlersOn = FALSE /\ promptedOnce = FALSE /\ sub = "none"
    /\ subExitCode = NoCode /\ host = "running" /\ hostExitCode = NoCode
    /\ exitCause = "none" /\ chunks = <<>> /\ ptyIn = <<>> /\ notices = <<>>
    /\ typed = <<>>

\* A command that ends without a spawn: it prints and returns, and the host
\* ends when nothing is left to run.
Returns(name, auth, trigger, regen, diag) ==
    run' = Run("ssh", name, auth, "aborted", trigger, regen, <<>>, diag,
               NaturalExitStatus)

\* handleSSH(name) up to its return. chmodOk is the outcome of the chmodSync
\* of a regeneration, readOk that of the readFileSync of the validation.
HandleSSH(name, chmodOk, readOk) ==
    LET e == EnsureConfig(credExists, creds)
        hits == {i \in DOMAIN servers : servers[i].name = name}
        sv == servers[CHOOSE i \in hits : \A j \in hits : i <= j]
        file == IF sv.keyPath = "keys" THEN keyFiles[name] ELSE userKeyFile
        k == LookupKeyContent(e.doc, name)
        written == WriteKeyFile(keyFiles[name], k.v)
        regenFile == IF chmodOk THEN Chmod600(written) ELSE written
        plan == KeySession(sv, file, PreWriteCheck(k), regenFile, readOk)
        pw == LookupPassword(e.doc, name)
    IN
    /\ run.cmd = "none"
    /\ credExists' = TRUE
    /\ creds' = e.doc
    /\ lastOp' = Op("handleSSH", name, <<>>, Ok(<<>>), e.writes,
                    "skipped", "skipped")
    /\ prevOp' = Call(lastOp)
    /\ UNCHANGED <<servers, userKeyFile, results>>
    /\ UNCHANGED sessionVars
    /\ IF servers = <<>>
       THEN /\ Returns(name, "none", "none", "none", "no servers")
            /\ UNCHANGED <<keysDir, keyFiles>>
       ELSE IF hits = {}
       THEN /\ Returns(name, "none", "none", "none", "server not found")
            /\ UNCHANGED <<keysDir, keyFiles>>
       ELSE IF sv.keyPath # "none"
       THEN /\ keyFiles' = IF plan.regen = "ok"
                           THEN [keyFiles EXCEPT ![name] = regenFile]
                           ELSE keyFiles
            /\ keysDir' = (keysDir \/ plan.regen = "ok")
            /\ IF plan.outcome = "aborted"
               THEN Returns(name, "key", plan.trigger, plan.regen, plan.diag)
               ELSE run' = Run("ssh", name, "key", "spawned", plan.trigger,
                               plan.regen, KeyArgv(sv, plan.keyPath), "none",
                               NoCode)
       ELSE /\ UNCHANGED <<keysDir, keyFiles>>
            /\ IF ~pw.some \/ pw.v = <<>>
               THEN Returns(name, "password", "none", "none",
                            "no stored password")
               ELSE run' = Run("ssh", name, "password", "spawned", "none",
                               "none", PasswordArgv(sv, pw.v), "none", NoCode)

\* The exit handler of the spawned child: process.exit(code).
ChildExit(code) ==
    /\ run.outcome = "spawned"
    /\ run' = [run EXCEPT !.outcome = "exited", !.exitCode = code]
    /\ UNCHANGED <<servers, userKeyFile, results>>
    /\ UNCHANGED <<storeVars, sessionVars>>

SshNext ==
    \/ \E n \in Aliases, chmodOk \in BOOLEAN, readOk \in BOOLEAN :
            HandleSSH(n, chmodOk, readOk)
    \/ \E code \in ExitCodes : ChildExit(code)

\* ------------------------------------------------------------------------
\* The add and rm commands: src/unnamed/part_001, lines 152-252 and 271-306
\* ------------------------------------------------------------------------
\* What the editor prompt can hand over: a key with the newline the editor
\* leaves at the end, keys lacking a marker, a blank line, nothing.
PastedContents ==
    {KeyValid \o <<"\n">>, KeyNoBegin, KeyNoPrivate, <<"\n">>, <<>>}

Whitespace == {"\n", " "}

\* String.prototype.trim
RECURSIVE Trim(_)
Trim(str) ==
    IF str = <<>> THEN str
    ELSE IF str[1] \in Whitespace THEN Trim(Tail(str))
    ELSE IF str[Len(str)] \in Whitespace THEN Trim(SubSeq(str, 1, Len(str) - 1))
    ELSE str

\* servers.splice(idx, 1)
Splice(list, idx) ==
    SubSeq(list, 1, idx - 1) \o SubSeq(list, idx + 1, Len(list))

\* A fresh installation; ~/.ssh/id_rsa may exist, with a private key or
\* with something else in it.
CliInit ==
    /\ servers = <<>>
    /\ credExists = FALSE /\ creds = [n \in Aliases |-> Absent]
    /\ keysDir = FALSE /\ keyFiles = [n \in Aliases |-> NoFile]
    /\ userKeyFile \in {NoFile, ForeignFile, File(KeyValid \o <<"\n">>, Mode600)}
    /\ lastOp = NoOp /\ prevOp = Call(NoOp)
    /\ results = <<>> /\ run = NoRun
    /\ pc = "idle" /\ entry = NoEntry /\ keyring = Null /\ isTTY = FALSE
    /\ spawned = "no" /\ rawMode = FALSE /\ modeLog = <<>> /\ password = Null
    /\ handlersOn = FALSE /\ promptedOnce = FALSE /\ sub = "none"
    /\ subExitCode = NoCode /\ host = "running" /\ hostExitCode = NoCode
    /\ exitCause = "none" /\ chunks = <<>> /\ ptyIn = <<>> /\ notices = <<>>
    /\ typed = <<>>

\* The answers of the prompts of add that its action reads.
Answer(auth, pw, keyMethod, pasted) ==
    [auth |-> auth, password |-> pw, keyMethod |-> keyMethod,
     keyContent |-> pasted]

Answers ==
    {Answer("password", pw, "none", <<>>) : pw \in Secrets}
        \cup {Answer("key", <<>>, "file", <<>>)}
        \cup {Answer("key", <<>>, "paste", k) : k \in PastedContents}

\* The add command. Each command is a process of its own: lastOp is the
\* command and no operation of the process came before it. chmodOk is the
\* outcome of fs.chmodSync.
Add(name, answers, chmodOk) ==
    LET e == EnsureConfig(credExists, creds)
        keyContent == Trim(answers.keyContent)
        written == WriteKeyFile(keyFiles[name], keyContent)
        cancelled == /\ creds' = e.doc
                     /\ UNCHANGED <<servers, keyFiles>>
                     /\ lastOp' = Op("add", name, <<>>, Fail("cancelled"),
                                     e.writes, "skipped", "skipped")
    IN
    /\ Len(servers) < MaxServers
    /\ credExists' = TRUE
    /\ prevOp' = Call(NoOp)
    /\ UNCHANGED <<userKeyFile, results, run>>
    /\ UNCHANGED sessionVars
    /\ IF answers.auth = "key" /\ answers.keyMethod = "paste"
            /\ answers.keyContent # <<>>
       THEN /\ keysDir' = TRUE
            /\ IF keyContent = <<>> \/ ~Includes(keyContent, "PRIVATE KEY")
               THEN cancelled
               ELSE /\ keyFiles' = [keyFiles EXCEPT ![name] =
                                     IF chmodOk THEN Chmod600(written)
                                     ELSE written]
                    /\ creds' = [e.doc EXCEPT ![name] = KeyRecord(keyContent)]
                    /\ servers' = Append(servers, Server(name, "keys"))
                    /\ lastOp' = Op("add", name, keyContent, Ok(<<>>),
                                    e.writes + 1,
                                    IF chmodOk THEN "ok" ELSE "failed", "skipped")
       ELSE IF answers.auth = "key" /\ answers.keyMethod = "file"
       THEN /\ UNCHANGED keysDir
            /\ IF ~userKeyFile.exists
               THEN cancelled
               ELSE /\ servers' = Append(servers, Server(name, "user"))
                    /\ creds' = e.doc
                    /\ UNCHANGED keyFiles
                    /\ lastOp' = Op("add", name, <<>>, Ok(<<>>), e.writes,
                                    "skipped", "skipped")
       ELSE IF answers.auth = "key"
       THEN UNCHANGED keysDir /\ cancelled
       ELSE /\ UNCHANGED <<keysDir, keyFiles>>
            /\ servers' = Append(servers, Server(name, "none"))
            /\ creds' = [e.doc EXCEPT ![name] = PasswordRecord(answers.password)]
            /\ lastOp' = Op("add", name, answers.password, Ok(<<>>),
                            e.writes + 1, "skipped", "skipped")

\* The rm command for a name, with the answer to the confirmation.
Rm(name, confirm) ==
    LET e == EnsureConfig(credExists, creds)
        hits == {i \in DOMAIN servers : servers[i].name = name}
        idx == CHOOSE i \in hits : \A j \in hits : i <= j
        removed == servers[idx]
        hit == EntryTruthy(e.doc[name])
    IN
    /\ credExists' = TRUE
    /\ prevOp' = Call(NoOp)
    /\ UNCHANGED <<keysDir, userKeyFile, results, run>>
    /\ UNCHANGED sessionVars
    /\ IF servers = <<>> \/ hits = {} \/ ~confirm
       THEN /\ creds' = e.doc
            /\ UNCHANGED <<servers, keyFiles>>
            /\ lastOp' = Op("rm", name, <<>>, Fail("cancelled"), e.writes,
                            "skipped", "skipped")
       ELSE /\ servers' = Splice(servers, idx)
            /\ creds' = IF hit THEN [e.doc EXCEPT ![name] = Absent] ELSE e.doc
            /\ keyFiles' = IF removed.keyPath = "keys"
                           THEN [keyFiles EXCEPT ![name] = NoFile]
                           ELSE keyFiles
            /\ lastOp' = Op("rm", name, <<>>, Ok(<<>>),
                            e.writes + (IF hit THEN 1 ELSE 0),
                            "skipped", "skipped")

\* The regen command for a name.
Regen(name, chmodOk, readOk) ==
    /\ \E i \in DOMAIN servers : servers[i].keyPath # "none"
    /\ RegenerateKeyFile(name, chmodOk, readOk)

CliNext ==
    \/ \E n \in Aliases, answers \in Answers, chmodOk \in BOOLEAN :
            Add(n, answers, chmodOk)
    \/ \E n \in Aliases, confirm \in BOOLEAN : Rm(n, confirm)
    \/ \E n \in Aliases, chmodOk \in BOOLEAN, readOk \in BOOLEAN :
            Regen(n, chmodOk, readOk)

\* ------------------------------------------------------------------------
\* Session: the connect action of src/unnamed/part_000
\* ------------------------------------------------------------------------

\* One chunk as the session saw it: was it written to stdout, was it run
\* through the detector (and with what class), and what the controller wrote
\* to the pty for it.
ChunkRecord(s, detected, secretWrites, yesWrites, writes) ==
    [text |-> s, forwarded |-> TRUE, detected |-> detected,
     class |-> IF detected THEN Classify(s) ELSE "unclassified",
     secretWrites |-> secretWrites, yesWrites |-> yesWrites,
     writes |-> writes]

\* Variant: raw mode switched on before the spawn is attempted.
RawThenSpawn(spawnOk, tty) ==
    [spawned |-> IF spawnOk THEN "ok" ELSE "failed",
     raw |-> tty]

\* pty.spawn, then setRawMode(true): a throwing spawn leaves the statements
\* after it unexecuted.
SpawnThenRaw(spawnOk, tty) ==
    [spawned |-> IF spawnOk THEN "ok" ELSE "failed",
     raw |-> spawnOk /\ tty]

\* The status the onExit handler passes to process.exit.
OnExitStatus(code) == 0

\* The status the catch of parseAsync passes to process.exit.
FatalStatus == 1

\* Variant: every chunk that is not the host-key question is answered with
\* the secret.
DetectorWritesUnprompted(s, pw) ==
    IF MatchesHostKey(s) THEN <<PtyWrite("detector", <<"yes", "\r">>)>>
    ELSE IF Truthy(pw) THEN <<PtyWrite("detector", <<pw, "\r">>)>>
    ELSE <<>>

\* What the detector handler writes to the pty for one chunk.
DetectorWrites(s, pw) ==
    IF MatchesHostKey(s) THEN <<PtyWrite("detector", <<"yes", "\r">>)>>
    ELSE IF MatchesSecret(s) /\ Truthy(pw)
         THEN <<PtyWrite("detector", <<pw, "\r">>)>>
    ELSE <<>>

\* process.exit(status) from inside the host: nothing runs afterwards.
HostExits(status, cause) ==
    /\ host' = "exited"
    /\ hostExitCode' = status
    /\ exitCause' = cause

SessionInit ==
    /\ credExists = FALSE /\ creds = [n \in Aliases |-> Absent]
    /\ keysDir = FALSE /\ keyFiles = [n \in Aliases |-> NoFile]
    /\ lastOp = NoOp /\ prevOp = Call(NoOp)
    /\ servers = <<>> /\ userKeyFile = NoFile /\ results = <<>> /\ run = NoRun
    /\ pc = "loadHosts"
    /\ entry \in Entries
    /\ keyring \in {Null, StoredSecret}
    /\ isTTY \in BOOLEAN
    /\ spawned = "no"
    /\ rawMode = FALSE
    /\ modeLog = <<>>
    /\ password = Null
    /\ handlersOn = FALSE
    /\ promptedOnce = FALSE
    /\ sub = "none"
    /\ subExitCode = NoCode
    /\ host = "running"
    /\ hostExitCode = NoCode
    /\ exitCause = "none"
    /\ chunks = <<>>
    /\ ptyIn = <<>>
    /\ notices = <<>>
    /\ typed = <<>>

\* loadHosts() resolved and hosts[alias] is undefined: the action returns and
\* the host process, with nothing left to wait for, ends with status 0.
ConnectNotFound ==
    /\ pc = "loadHosts" /\ host = "running"
    /\ ~entry.found
    /\ pc' = "returned"
    /\ modeLog' = Append(modeLog, "exit")
    /\ HostExits(0, "returned")
    /\ UNCHANGED <<storeVars, cliVars>>
    /\ UNCHANGED <<entry, keyring, isTTY, spawned, rawMode, password,
                   handlersOn, promptedOnce, sub, subExitCode, chunks, ptyIn,
                   notices, typed>>

\* pty.spawn throws: the action rejects, parseAsync's catch prints the error
\* and calls process.exit(1).
ConnectSpawnFails ==
    /\ pc = "loadHosts" /\ host = "running"
    /\ entry.found
    /\ LET r == SpawnThenRaw(FALSE, isTTY) IN
        /\ spawned' = r.spawned
        /\ rawMode' = r.raw
        /\ modeLog' = (IF r.raw THEN <<"enter">> ELSE <<>>) \o <<"exit">>
    /\ pc' = "returned"
    /\ HostExits(FatalStatus, "fatal")
    /\ UNCHANGED <<storeVars, cliVars>>
    /\ UNCHANGED <<entry, keyring, isTTY, password, handlersOn, promptedOnce,
                   sub, subExitCode, chunks, ptyIn, notices, typed>>

\* pty.spawn succeeds: forwarder registered, raw mode, stdin listener; then
\* either the awaited keyring lookup (password auth) or, with no await in
\* between, the detector and onExit handlers.
ConnectSpawns ==
    /\ pc = "loadHosts" /\ host = "running"
    /\ entry.found
    /\ LET r == SpawnThenRaw(TRUE, isTTY) IN
        /\ spawned' = r.spawned
        /\ rawMode' = r.raw
        /\ modeLog' = IF r.raw THEN <<"enter">> ELSE <<>>
    /\ sub' = "running"
    /\ IF entry.auth = "password"
       THEN pc' = "awaitKeytar" /\ handlersOn' = FALSE
       ELSE pc' = "streaming" /\ handlersOn' = TRUE
    /\ UNCHANGED <<storeVars, cliVars>>
    /\ UNCHANGED <<entry, keyring, isTTY, password, promptedOnce, subExitCode,
                   host, hostExitCode, exitCause, chunks, ptyIn, notices, typed>>

\* keytar.getPassword resolves with the stored secret or null; the action
\* goes on to register the detector and the onExit handler.
KeytarResolves ==
    /\ pc = "awaitKeytar" /\ host = "running"
    /\ password' = keyring
    /\ notices' = IF Truthy(keyring) THEN notices
                  ELSE Append(notices, "Password not found in keyring")
    /\ handlersOn' = TRUE
    /\ pc' = "streaming"
    /\ UNCHANGED <<storeVars, cliVars>>
    /\ UNCHANGED <<entry, keyring, isTTY, spawned, rawMode, modeLog,
                   promptedOnce, sub, subExitCode, host, hostExitCode,
                   exitCause, chunks, ptyIn, typed>>

\* keytar.getPassword rejects (no secret service, locked keychain): the
\* action rejects and parseAsync's catch calls process.exit(1).
KeytarRejects ==
    /\ pc = "awaitKeytar" /\ host = "running"
    /\ pc' = "returned"
    /\ modeLog' = Append(modeLog, "exit")
    /\ HostExits(FatalStatus, "fatal")
    /\ UNCHANGED <<storeVars, cliVars>>
    /\ UNCHANGED <<entry, keyring, isTTY, spawned, rawMode, password,
                   handlersOn, promptedOnce, sub, subExitCode, chunks, ptyIn,
                   notices, typed>>

\* The event loop is free to dispatch pty and stdin events.
Dispatching == host = "running" /\ pc \in {"awaitKeytar", "streaming"}

\* The subprocess emits a chunk: the forwarder writes it to stdout; the
\* detector, if already registered, classifies it and answers.
PtyData(s) ==
    /\ Dispatching /\ sub = "running"
    /\ Len(chunks) < MaxChunks
    /\ LET w == IF handlersOn THEN DetectorWrites(s, password) ELSE <<>>
           notify == /\ handlersOn
                     /\ ~MatchesHostKey(s) /\ MatchesSecret(s)
                     /\ ~Truthy(password) /\ ~promptedOnce
       IN /\ ptyIn' = ptyIn \o w
          /\ chunks' = Append(chunks,
                ChunkRecord(s, handlersOn,
                    Cardinality({i \in DOMAIN w :
                                    w[i].data = <<password, "\r">>}),
                    Cardinality({i \in DOMAIN w :
                                    w[i].data = <<"yes", "\r">>}),
                    Len(w)))
          /\ promptedOnce' = (promptedOnce \/ notify)
          /\ notices' = IF notify THEN Append(notices, "Please type password")
                        ELSE notices
    /\ UNCHANGED <<storeVars, cliVars>>
    /\ UNCHANGED <<pc, entry, keyring, isTTY, spawned, rawMode, modeLog,
                   password, handlersOn, sub, subExitCode, host, hostExitCode,
                   exitCause, typed>>

\* The subprocess terminates. With the onExit handler registered the handler
\* restores the terminal and ends the host; an exit dispatched before the
\* registration reaches no listener.
PtyExit(code) ==
    /\ Dispatching /\ sub = "running"
    /\ sub' = "exited"
    /\ subExitCode' = code
    /\ IF handlersOn
       THEN /\ rawMode' = (IF isTTY THEN FALSE ELSE rawMode)
            /\ modeLog' = modeLog \o (IF isTTY THEN <<"restore">> ELSE <<>>)
                                  \o <<"exit">>
            /\ HostExits(OnExitStatus(code), "subprocess")
       ELSE UNCHANGED <<rawMode, modeLog, host, hostExitCode, exitCause>>
    /\ UNCHANGED <<storeVars, cliVars>>
    /\ UNCHANGED <<pc, entry, keyring, isTTY, spawned, password, handlersOn,
                   promptedOnce, chunks, ptyIn, notices, typed>>

\* Local terminal input: written to the pty inside try/catch; a write to a
\* pty whose process is gone is dropped.
StdinData(d) ==
    /\ Dispatching /\ spawned = "ok"
    /\ Len(typed) < MaxTyped
    /\ typed' = Append(typed, [data |-> d, alive |-> sub = "running"])
    /\ ptyIn' = IF sub = "running"
                THEN Append(ptyIn, PtyWrite("stdin", WriteDecoded(d)))
                ELSE ptyIn
    /\ UNCHANGED <<storeVars, cliVars>>
    /\ UNCHANGED <<pc, entry, keyring, isTTY, spawned, rawMode, modeLog,
                   password, handlersOn, promptedOnce, sub, subExitCode, host,
                   hostExitCode, exitCause, chunks, notices>>

\* A terminating signal (SIGTERM, SIGHUP) reaches the host: the program
\* installs no signal handler, so the host dies where it stands.
Signal ==
    /\ host = "running"
    /\ host' = "killed"
    /\ exitCause' = "signal"
    /\ modeLog' = Append(modeLog, "exit")
    /\ UNCHANGED <<storeVars, cliVars>>
    /\ UNCHANGED <<pc, entry, keyring, isTTY, spawned, rawMode, password,
                   handlersOn, promptedOnce, sub, subExitCode, hostExitCode,
                   chunks, ptyIn, notices, typed>>

SessionNext ==
    \/ ConnectNotFound
    \/ ConnectSpawnFails
    \/ ConnectSpawns
    \/ KeytarResolves
    \/ KeytarRejects
    \/ \E s \in Chunks : PtyData(s)
    \/ \E code \in ExitCodes : PtyExit(code)
    \/ \E d \in StdinInputs : StdinData(d)
    \/ Signal

\* ------------------------------------------------------------------------
\* Specifications
\* ------------------------------------------------------------------------
SessionSpec == SessionInit /\ [][SessionNext]_vars

StoreSpec == StoreInit /\ [][StoreNext]_vars

RegenAllSpec == RegenAllInit /\ [][RegenAllNext]_vars

SshSpec == SshInit /\ [][SshNext]_vars

CliSpec == CliInit /\ [][CliNext]_vars

\* ------------------------------------------------------------------------
\* Properties of the session (SessionSpec)
\* ------------------------------------------------------------------------
Count(seq, x) == Cardinality({i \in DOMAIN seq : seq[i] = x})

\* Position of the first x in seq (0 when there is none).
IndexOf(seq, x) ==
    IF \E i \in DOMAIN seq : seq[i] = x
    THEN CHOOSE i \in DOMAIN seq : seq[i] = x /\ \A j \in 1..(i - 1) : seq[j] # x
    ELSE 0

\* C1: in a password-auth session whose alias has a stored password, every
\* chunk classified SecretPrompt is answered by exactly one write of the
\* secret plus line terminator to the pty: never zero, never two.
C1_SecretOncePerPrompt ==
    (entry.auth = "password" /\ Truthy(keyring)) =>
        \A i \in DOMAIN chunks :
            Classify(chunks[i].text) = "SecretPrompt" => chunks[i].secretWrites = 1

\* C2: once the subprocess of a spawned session has exited (with any status),
\* raw mode has been entered exactly once and restored exactly once and the
\* host has exited, in that order.
C2_EnterRestoreExit ==
    (sub = "exited" /\ isTTY) => modeLog = <<"enter", "restore", "exit">>

\* C3: in every terminated state of a session that entered raw mode
\* (subprocess exit, signal, uncaught failure) the terminal has been restored
\* exactly once, before the host ended, and is not in raw mode.
C3_RestoredOnEveryPath ==
    (host # "running" /\ Count(modeLog, "enter") > 0) =>
        /\ ~rawMode
        /\ Count(modeLog, "restore") = 1
        /\ IndexOf(modeLog, "restore") < IndexOf(modeLog, "exit")

\* C4: raw mode is entered only after the subprocess was spawned; a failed
\* spawn ends the host with a non-zero status and the terminal not in raw mode.
C4_RawOnlyAfterSpawn ==
    /\ (rawMode \/ Count(modeLog, "enter") > 0) => spawned = "ok"
    /\ spawned = "failed" =>
        /\ host = "exited" /\ exitCause = "fatal"
        /\ hostExitCode \notin {0, NoCode}
        /\ ~rawMode

\* C4 witness: on a terminal, the spawn failed and the host has ended.
C4_Witness == spawned = "failed" /\ isTTY /\ host = "exited"

\* C5: when the session ends because the subprocess terminated, the host's
\* exit status equals the subprocess's exit status.
C5_ExitStatusPassedOn ==
    exitCause = "subprocess" => hostExitCode = subExitCode

\* The subprocess has just emitted a chunk: the chunk record of this step.
Emitted == Len(chunks') = Len(chunks) + 1
LastChunk == chunks'[Len(chunks')]

\* C15: every chunk the subprocess emits after the spawn is forwarded to the
\* local terminal and run through the prompt detector, the chunks that
\* arrive while the credential lookup is pending included.
C15_EveryChunkDetected ==
    \A i \in DOMAIN chunks : chunks[i].forwarded /\ chunks[i].detected

\* C16: a chunk of class HostKeyConfirm makes the controller write "yes" and
\* a line terminator to the pty, and nothing else: no secret is written and
\* the session state stays as it was.
C16_HostKeyAnswered ==
    [][(Emitted /\ Classify(LastChunk.text) = "HostKeyConfirm") =>
           /\ ptyIn' = Append(ptyIn, PtyWrite("detector", <<"yes", "\r">>))
           /\ LastChunk.secretWrites = 0
           /\ pc' = pc /\ password' = password
           /\ promptedOnce' = promptedOnce /\ notices' = notices]_vars

\* The writes of the stored secret among the writes to the pty.
SecretWrites(w) ==
    {i \in DOMAIN w : w[i].from = "detector" /\ w[i].data = <<StoredSecret, "\r">>}

\* C28: the controller writes the stored secret to the pty only in the step
\* in which the subprocess emitted a chunk of class SecretPrompt, in a
\* password-auth session, and then once: never for a chunk of another class,
\* never for local input, never in a key-auth session.
C28_SecretOnlyOnPrompt ==
    [][Cardinality(SecretWrites(ptyIn')) # Cardinality(SecretWrites(ptyIn)) =>
           /\ Emitted /\ Classify(LastChunk.text) = "SecretPrompt"
           /\ entry.auth = "password"
           /\ ptyIn' = Append(ptyIn, PtyWrite("detector", <<StoredSecret, "\r">>))]_vars

\* C28 witness: a password session wrote the secret for a prompt and took
\* local input as well.
C28_Witness ==
    /\ SecretWrites(ptyIn) # {}
    /\ \E i \in DOMAIN ptyIn : ptyIn[i].from = "stdin"

\* C29: a chunk that matches both the host-key pattern and the secret-prompt
\* pattern makes the controller write "yes" and a line terminator, and that
\* only: the secret is not written for that chunk.
C29_HostKeyBeforeSecret ==
    [][(Emitted /\ MatchesHostKey(LastChunk.text)
            /\ MatchesSecret(LastChunk.text)) =>
           /\ ptyIn' = Append(ptyIn, PtyWrite("detector", <<"yes", "\r">>))
           /\ SecretWrites(ptyIn') = SecretWrites(ptyIn)]_vars

\* The session never resolves a secret: key authentication, or a password
\* entry without a stored password.
NoResolvedSecret == entry.auth # "password" \/ ~Truthy(keyring)

\* C17: in a session without a resolved secret, the first chunk of class
\* SecretPrompt surfaces the notice inviting the human to type, and every
\* later chunk of that class surfaces no notice; none of them makes the
\* controller write to the pty.
C17_NoticeOnFirstPromptOnly ==
    [][(NoResolvedSecret /\ Emitted
            /\ Classify(LastChunk.text) = "SecretPrompt") =>
           /\ ptyIn' = ptyIn
           /\ IF \E i \in DOMAIN chunks :
                     Classify(chunks[i].text) = "SecretPrompt"
              THEN notices' = notices
              ELSE notices' = Append(notices, "Please type password")]_vars

\* C18: the input events received while the subprocess is alive reach the pty
\* byte for byte and in arrival order.
C18_InputVerbatim ==
    LET written == SelectSeq(ptyIn, LAMBDA w : w.from = "stdin")
        received == SelectSeq(typed, LAMBDA t : t.alive)
    IN /\ Len(written) = Len(received)
       /\ \A i \in DOMAIN written : written[i].data = received[i].data

\* C19: the classifier, whatever the case of the letters, maps the host-key
\* question to HostKeyConfirm, "password:" and the passphrase prompt to
\* SecretPrompt, the banner and every chunk matching neither pattern to
\* Passthrough; a Passthrough chunk causes no write to the pty.
C19_ClassifierTable ==
    \A i \in DOMAIN chunks :
        chunks[i].detected =>
            /\ chunks[i].text = HostKeyChunk => chunks[i].class = "HostKeyConfirm"
            /\ chunks[i].text \in {PlainPasswordChunk, UpperPasswordChunk,
                                    PassphraseChunk}
                   => chunks[i].class = "SecretPrompt"
            /\ chunks[i].text = BannerChunk => chunks[i].class = "Passthrough"
            /\ (~MatchesHostKey(chunks[i].text) /\ ~MatchesSecret(chunks[i].text))
                   => chunks[i].class = "Passthrough"
            /\ chunks[i].class = "Passthrough" => chunks[i].writes = 0

\* C19 witness: the detector has classified the host-key question and the
\* banner in one session.
C19_Witness ==
    /\ \E i \in DOMAIN chunks :
           chunks[i].detected /\ chunks[i].text = HostKeyChunk
    /\ \E i \in DOMAIN chunks :
           chunks[i].detected /\ chunks[i].text = BannerChunk

\* ------------------------------------------------------------------------
\* Properties of the credential store (StoreSpec)
\* ------------------------------------------------------------------------
Followed(first, second) ==
    /\ prevOp.name = first /\ lastOp.name = second
    /\ lastOp.alias = prevOp.alias

\* C6: savePassword(a, v) followed by getPassword(a) returns v, and
\* deletePassword(a) followed by getPassword(a) returns null, whatever
\* operations came before.
C6_PasswordRoundTrip ==
    /\ Followed("savePassword", "getPassword") => lastOp.result = Ok(prevOp.arg)
    /\ Followed("deletePassword", "getPassword") => lastOp.result = Fail("null")

\* C6 witness: a password was stored over an existing record and read back.
C6_Witness ==
    /\ Followed("savePassword", "getPassword")
    /\ prevOp.arg = <<"s3cr3t">>
    /\ \E n \in Aliases : n # lastOp.alias /\ creds[n] # Absent

\* C7: a config load rewrites every bare-string entry to {type: password,
\* value}, leaves every other entry alone and persists the result; a load
\* right after a load changes nothing and writes nothing to the secrets
\* document.
C7_MigrationIdempotent ==
    [][lastOp'.name = "ensureConfig" =>
        /\ \A n \in Aliases :
              creds'[n] = IF creds[n].type = "bare"
                          THEN Tagged("password", creds[n].value)
                          ELSE creds[n]
        /\ NeedsUpdate(creds) => lastOp'.credWrites >= 1
        /\ lastOp.name = "ensureConfig" =>
              creds' = creds /\ lastOp'.credWrites = 0]_vars

\* C7 witness: a document of bare strings only was loaded twice; the first
\* load wrote the tagged records.
C7_Witness ==
    /\ prevOp.name = "ensureConfig" /\ lastOp.name = "ensureConfig"
    /\ lastOp.credWrites = 0
    /\ \A n \in Aliases : creds[n].type = "password"

\* C8 as stated: regenerateKeyFile(a) right after saveKeyContent(a, k), k
\* with both markers, leaves the key file of a with content k plus one
\* newline and mode 0600, and returns its path.
C8_KeyFileFidelity ==
    (Followed("saveKeyContent", "regenerateKeyFile") /\ HasEnvelope(prevOp.arg)) =>
        /\ keyFiles[lastOp.alias] = File(prevOp.arg \o <<"\n">>, Mode600)
        /\ lastOp.result = Ok(KeyPath(lastOp.alias))

\* C8 amended: as above for content and path; the mode is 0600 when the
\* chmod succeeded or the file was created by the write, and is the mode
\* the file already had when the chmod failed on an existing file.
C8_KeyFileFidelityAmended ==
    [][(/\ lastOp.name = "saveKeyContent" /\ HasEnvelope(lastOp.arg)
        /\ lastOp'.name = "regenerateKeyFile" /\ lastOp'.alias = lastOp.alias) =>
        LET a == lastOp.alias
            old == keyFiles[a]
            new == keyFiles'[a]
        IN /\ new.exists /\ new.content = lastOp.arg \o <<"\n">>
           /\ lastOp'.result = Ok(KeyPath(a))
           /\ (lastOp'.chmod = "ok" \/ ~old.exists) => new.mode = Mode600
           /\ (lastOp'.chmod = "failed" /\ old.exists) => new.mode = old.mode]_vars

\* C8 witness: the key was regenerated over a group-readable file whose mode
\* could not be changed.
C8_Witness ==
    /\ Followed("saveKeyContent", "regenerateKeyFile") /\ HasEnvelope(prevOp.arg)
    /\ lastOp.chmod = "failed"
    /\ keyFiles[lastOp.alias] = File(prevOp.arg \o <<"\n">>, Mode644)

\* C9: regenerateKeyFile(a) fails with NotFound when a has no key-type
\* record, with InvalidContent when the stored key content lacks a marker,
\* and in both cases creates or modifies no key file.
C9_RegenerateErrors ==
    [][lastOp'.name = "regenerateKeyFile" =>
        LET k == LookupKeyContent(creds, lastOp'.alias) IN
        /\ ~k.some => lastOp'.result = Fail("NotFound")
        /\ (k.some /\ ~HasEnvelope(k.v)) => lastOp'.result = Fail("InvalidContent")
        /\ lastOp'.result.kind \in {"NotFound", "InvalidContent"} =>
              keyFiles' = keyFiles /\ keysDir' = keysDir]_vars

\* C10: when the re-read of the written key file fails, regenerateKeyFile
\* fails with InvalidContent instead of returning a path.
C10_RereadFailureReported ==
    (lastOp.name = "regenerateKeyFile" /\ lastOp.reread = "failed") =>
        lastOp.result = Fail("InvalidContent")

\* ------------------------------------------------------------------------
\* Properties of regenerateAllKeyFiles (RegenAllSpec)
\* ------------------------------------------------------------------------
\* The server at position i of the key servers has no stored key content.
NoKeyContent(sv) == KeyContentMissing(LookupKeyContent(creds, sv.name))

\* C11: regenerateAllKeyFiles returns one result per key-based server, in
\* list order, whatever fails on the way; with three key-based servers of
\* which exactly one has no stored key content, exactly one result is failed
\* and two are success.
C11_OneResultPerKeyServer ==
    lastOp.name = "regenerateAllKeyFiles" =>
        LET ks == KeyServers(servers)
            missing == {i \in DOMAIN ks : NoKeyContent(ks[i])}
            failed == {i \in DOMAIN results : results[i].status = "failed"}
            success == {i \in DOMAIN results : results[i].status = "success"}
        IN /\ Len(results) = Len(ks)
           /\ \A i \in DOMAIN ks : results[i].name = ks[i].name
           /\ (Len(ks) = 3 /\ Cardinality(missing) = 1) =>
                  Cardinality(failed) = 1 /\ Cardinality(success) = 2

\* C12: a regeneration writes a key file only from a key record whose value
\* has both envelope markers, and regenerateAllKeyFiles reports every key
\* server whose record lacks a marker as failed.
C12_NoWriteWithoutEnvelope ==
    [][/\ \A n \in DOMAIN keyFiles :
            keyFiles'[n] # keyFiles[n] =>
                creds'[n].type = "key" /\ HasEnvelope(creds'[n].value)
       /\ lastOp'.name = "regenerateAllKeyFiles" =>
            \A i \in DOMAIN results' :
                ~HasEnvelope(creds'[results'[i].name].value) =>
                    results'[i].status = "failed"]_vars

\* What the getters would return in this state: each loads the document
\* first.
Loaded == EnsureConfig(credExists, creds).doc

\* C27: the secrets table holds one record per alias, of one type: in no
\* state would getPassword(a) and getKeyContent(a) both return a value;
\* getPassword(a) right after saveKeyContent(a, k) returns null, and
\* getKeyContent(a) right after savePassword(a, v) returns null.
C27_OneRecordPerAlias ==
    /\ \A n \in DOMAIN creds :
           ~(LookupPassword(Loaded, n).some /\ LookupKeyContent(Loaded, n).some)
    /\ Followed("saveKeyContent", "getPassword") => lastOp.result = Fail("null")
    /\ Followed("savePassword", "getKeyContent") => lastOp.result = Fail("null")

\* C27 witness: a key was stored under an alias and getPassword was then
\* asked for that alias, while another alias held a password record.
C27_Witness ==
    /\ Followed("saveKeyContent", "getPassword")
    /\ prevOp.arg = KeyValid
    /\ \E n \in DOMAIN creds : creds[n].type = "password"

\* C26: a chmod that fails is not fatal to any regeneration: the key file is
\* written all the same, regenerateKeyFile returns its path, and
\* regenerateAllKeyFiles reports no server as failed for the chmod's error.
C26_ChmodFailureNonFatal ==
    /\ (lastOp.name = "regenerateKeyFile" /\ lastOp.chmod = "failed") =>
           /\ lastOp.result = Ok(KeyPath(lastOp.alias))
           /\ keyFiles[lastOp.alias] # NoFile
    /\ lastOp.name = "regenerateAllKeyFiles" =>
           \A i \in DOMAIN results :
               ~(results[i].status = "failed" /\ results[i].reason = "EPERM")

\* ------------------------------------------------------------------------
\* Properties of handleSSH (SshSpec)
\* ------------------------------------------------------------------------
\* C13: in a key-based session, a key file that is missing or fails the
\* content validation makes the controller attempt a regeneration; the
\* session ends without a spawn only if that regeneration failed, and a
\* successful regeneration is followed by the spawn.
C13_RegenerateBeforeGivingUp ==
    (run.cmd = "ssh" /\ run.auth = "key") =>
        /\ run.trigger \in {"missing", "invalid"} => run.regen # "none"
        /\ run.outcome = "aborted" => run.regen = "failed"
        /\ run.regen = "ok" => run.outcome \in {"spawned", "exited"}

\* C20: a session that ends before the spawn for want of a stored
\* credential, of a key file and a regenerable key, or of a valid key ends
\* the host with a diagnostic and an exit status other than zero.
C20_AbortExitsNonZero ==
    (run.cmd = "ssh" /\ run.outcome = "aborted"
        /\ run.auth \in {"key", "password"}) =>
        /\ run.diag # "none"
        /\ run.exitCode # NoCode /\ run.exitCode # 0

\* ------------------------------------------------------------------------
\* Properties of the commands (CliSpec)
\* ------------------------------------------------------------------------
\* The file at the keyPath of a server entry.
FileAt(sv) == IF sv.keyPath = "keys" THEN keyFiles[sv.name] ELSE userKeyFile

\* C14: whatever add, rm, credential-store and regeneration operations have
\* run, every server entry with a keyPath has a non-empty key file with both
\* markers at that path, or a key record from which regenerateKeyFile
\* rebuilds the file.
C14_KeyFileOrRecord ==
    \A i \in DOMAIN servers :
        servers[i].keyPath # "none" =>
            \/ /\ FileAt(servers[i]).exists
               /\ FileAt(servers[i]).content # <<>>
               /\ HasEnvelope(FileAt(servers[i]).content)
            \/ PreWriteCheck(LookupKeyContent(creds, servers[i].name)) = "write"

\* C21: a session for a password server without a stored secret is spawned
\* all the same, so that the human can type the password; it does not end
\* for want of the secret.
C21_MissingSecretStillSpawns ==
    (run.cmd = "ssh" /\ run.auth = "password") =>
        run.outcome \in {"spawned", "exited"}

\* The entry handleSSH picks for a name: the first one of that name.
EntryFor(name) ==
    servers[CHOOSE i \in DOMAIN servers :
                /\ servers[i].name = name
                /\ \A j \in 1..(i - 1) : servers[j].name # name]

\* C22: the argument vector of a spawn is the three -o options, -p and the
\* port (22 when the entry has none), -i and the key path exactly for an
\* entry with key authentication, and user@host; for password
\* authentication the same invocation follows sshpass -p <password>.
C22_ArgumentVector ==
    run.outcome \in {"spawned", "exited"} =>
        LET sv == EntryFor(run.name)
            port == IF sv.port = "" THEN "22" ELSE sv.port
            login(identity) ==
                << <<"ssh">>,
                   <<"-o">>, <<"StrictHostKeyChecking=no">>,
                   <<"-o">>, <<"UserKnownHostsFile=/dev/null">>,
                   <<"-o">>, <<"LogLevel=ERROR">>,
                   <<"-p">>, <<port>> >>
                    \o identity \o << <<sv.user, "@", sv.host>> >>
        IN IF sv.keyPath # "none"
           THEN \E path \in {ExpandHome(ServerKeyPath(sv)),
                             ExpandHome(KeyPath(sv.name))} :
                    run.argv = login(<< <<"-i">>, path >>)
           ELSE run.argv =
                    << <<"sshpass">>, <<"-p">>, creds[sv.name].value >>
                        \o login(<<>>)

\* C22 witness: a key session was spawned for an entry without a port.
C22_Witness ==
    /\ run.outcome = "spawned" /\ run.auth = "key"
    /\ EntryFor(run.name).port = NoPort

\* The file a path names once this step is done: a key file of the keys
\* directory, the user's own key file, or nothing.
FileAfterAt(path) ==
    IF \E n \in Aliases : path = ExpandHome(KeyPath(n))
    THEN keyFiles'[CHOOSE n \in Aliases : path = ExpandHome(KeyPath(n))]
    ELSE IF path = ExpandHome(UserKeyPath) THEN userKeyFile'
    ELSE NoFile

\* The step spawns the ssh of a key session.
KeySpawn == run.outcome = "none" /\ run'.outcome = "spawned" /\ run'.auth = "key"

\* C31: when a key session spawns, its argument vector has one -i, the file
\* at the path after it exists and contains BEGIN and PRIVATE KEY, whether
\* the file was found valid, was missing or was invalid; and when a
\* regeneration ran, that path is the path of the regenerated file.
C31_IdentityFileValidAtSpawn ==
    [][KeySpawn =>
           LET argv == run'.argv
               at == {i \in DOMAIN argv : argv[i] = <<"-i">>}
           IN /\ Cardinality(at) = 1
              /\ \A i \in at :
                    /\ i < Len(argv)
                    /\ FileAfterAt(argv[i + 1]).exists
                    /\ Includes(FileAfterAt(argv[i + 1]).content, "BEGIN")
                    /\ Includes(FileAfterAt(argv[i + 1]).content, "PRIVATE KEY")
                    /\ run'.regen # "none" =>
                          /\ argv[i + 1] = <<HomeDir, "/.sshm/keys/", run'.name, "_key">>
                          /\ keyFiles'[run'.name].content
                                = creds'[run'.name].value \o <<"\n">>]_vars

\* C31 witness: a key session was spawned after the file at the entry's own
\* path, the user's key file, was found without the markers and the key was
\* regenerated in the keys directory.
C31_Witness ==
    /\ run.outcome = "spawned" /\ run.auth = "key"
    /\ run.trigger = "invalid" /\ run.regen = "ok"
    /\ EntryFor(run.name).keyPath = "user"
    /\ userKeyFile = ForeignFile

\* ------------------------------------------------------------------------
\* Further properties of the credential store (StoreSpec)
\* ------------------------------------------------------------------------
\* The operation of this step writes or deletes the entry of alias n.
Overwrites(n) ==
    /\ lastOp'.alias = n
    /\ lastOp'.name \in {"savePassword", "saveKeyContent", "deletePassword"}

\* C23: after every store operation the secrets document holds no bare
\* string; a bare entry the operation did not overwrite has become a
\* password record of the same value, and getPassword returns that value; a
\* tagged record the operation did not overwrite is as it was.
C23_OneWayUpgrade ==
    [][/\ \A n \in DOMAIN creds' : creds'[n].type # "bare"
       /\ \A n \in DOMAIN creds :
            (creds[n].type = "bare" /\ ~Overwrites(n)) =>
                creds'[n] = [type |-> "password", value |-> creds[n].value]
       /\ \A n \in DOMAIN creds :
            (creds[n].type \in {"password", "key"} /\ ~Overwrites(n)) =>
                creds'[n] = creds[n]
       /\ (lastOp'.name = "getPassword"
              /\ creds[lastOp'.alias].type = "bare") =>
                lastOp'.result = Ok(creds[lastOp'.alias].value)]_vars

\* C23 witness: the first operation on a legacy document was a getPassword
\* that rewrote the document and returned the stored string.
C23_Witness ==
    /\ prevOp.name = "none" /\ lastOp.name = "getPassword"
    /\ lastOp.credWrites = 1 /\ lastOp.result = Ok(<<"s3cr3t">>)

\* The entry of the alias of this step's operation, before the step.
EntryBefore == creds[lastOp'.alias]

\* C25: deletePassword(a) returns true exactly when an entry of either type
\* existed for a, and that entry is then gone; when none existed it returns
\* false and the secrets document is neither written nor changed.
C25_DeleteReturn ==
    [][lastOp'.name = "deletePassword" =>
           /\ (lastOp'.result = Ok(<<"true">>)) <=> (EntryBefore # Absent)
           /\ EntryBefore # Absent => creds'[lastOp'.alias] = Absent
           /\ EntryBefore = Absent =>
                  /\ lastOp'.credWrites = 0
                  /\ creds' = creds /\ credExists' = credExists]_vars

\* C25 as it holds: deletePassword(a) returns true exactly when an entry of
\* either type existed for a, and that entry is then gone; when none existed
\* it returns false and writes nothing of its own: the document is as the
\* load left it, created if it was missing and with its legacy strings
\* upgraded, and is written only for that.
C25_DeleteReturnAmended ==
    [][lastOp'.name = "deletePassword" =>
           /\ (lastOp'.result = Ok(<<"true">>)) <=> (EntryBefore # Absent)
           /\ EntryBefore # Absent => creds'[lastOp'.alias] = Absent
           /\ EntryBefore = Absent =>
                  /\ lastOp'.result = Ok(<<"false">>)
                  /\ lastOp'.credWrites =
                         (IF credExists THEN 0 ELSE 1)
                         + (IF \E n \in DOMAIN creds : creds[n].type = "bare"
                            THEN 1 ELSE 0)
                  /\ creds' =
                         [n \in DOMAIN creds |->
                             IF creds[n].type = "bare"
                             THEN [type |-> "password", value |-> creds[n].value]
                             ELSE creds[n]]]_vars

\* C25 witness: a deletePassword found nothing under its alias, returned
\* false, and the load before it had rewritten a legacy document.
C25_Witness ==
    /\ lastOp.name = "deletePassword" /\ lastOp.result = Ok(<<"false">>)
    /\ lastOp.credWrites = 1 /\ creds[lastOp.alias] = Absent

\* ------------------------------------------------------------------------
\* Further properties of the commands (CliSpec)
\* ------------------------------------------------------------------------
\* C24: an add under the name of an existing entry replaces that entry, so
\* the stored list never holds two entries of one name.
C24_OneEntryPerName ==
    \A i, j \in DOMAIN servers : servers[i].name = servers[j].name => i = j

\* C30: after any sequence of add and rm commands, every entry of the list
\* without a keyPath has a password record that getPassword returns under
\* its name; no rm takes away the credential an entry that stays needs.
C30_PasswordEntriesHaveSecret ==
    \A i \in DOMAIN servers :
        servers[i].keyPath = "none" =>
            LookupPassword(Loaded, servers[i].name).some
====
